---- MODULE Spec2Model ----
(***************************************************************************)
(* Weight tracker: the client component (src/app/page.tsx), the API routes *)
(* (src/app/api/user/route.ts) and the store behind them (src/lib/db.ts).  *)
(*                                                                         *)
(* Encoding of JavaScript values                                           *)
(*   - a text field is a sequence: <<>> is the empty string, <<n>> is the  *)
(*     decimal text of the number n (the fields are type="number"/"date"); *)
(*   - an instant is an integer count of time units, DayLen units a day;   *)
(*     the client's time zone is an offset tz in units;                    *)
(*   - null ids, a null profile and a null entry have id 0 (serial ids     *)
(*     start at 1 and every test in the code is a truthiness test);        *)
(*   - a null goal weight is 0 and a null note is "" for the same reason.  *)
(***************************************************************************)
EXTENDS Integers, Sequences, FiniteSets, TLC

\* ------------------------------------------------------------ bounds
DayLen == 2
MaxDay == 1
MaxUserId == 2
MaxEntryId == 4
MaxToday == 2
MaxReloads == 1
MaxOps == 4
MaxStored == 2
MaxStoredDay == 3
MaxLoadedOps == 2
MaxAsyncOps == 3
MaxSessionOps == 4

\* parseFloat's not-a-number result
NaN == -1000000

MaxNow == (MaxDay + 1) * DayLen - 1
Days == 0..MaxDay
TzOffsets == {-1, 0, 1}

Names == {"", "Al"}
SetupWeightTexts == {<<>>, <<80>>}
SetupGoalTexts == {<<>>, <<70>>, <<90>>}
TodayWeightTexts == {<<>>, <<78>>}
EditWeightTexts == {<<>>, <<0>>, <<79>>}
EditNoteTexts == {"n"}
EditDateTexts == {<<>>} \cup {<<d>> : d \in Days}

\* ------------------------------------------------------------ helpers
Truthy(text) == text # <<>>

parseFloat(text) == IF text = <<>> THEN NaN ELSE text[1]

isNaN(num) == num = NaN

safeToNumber(value) == IF isNaN(value) THEN 0 ELSE value

String(num) == <<num>>

Abs(x) == IF x < 0 THEN -x ELSE x

Sign(x) == IF x < 0 THEN -1 ELSE IF x > 0 THEN 1 ELSE 0

\* ------------------------------------------------------------ state
VARIABLES
  \* the store
  dbUsers, dbEntries, nextUserId, nextEntryId,
  \* the browser
  storageId, now, tz, reloads,
  \* React state of WeightWiseTracker
  isLoading, userProfile, weightEntries, currentUserId, hasLoadedFromStorage,
  \* the value useMemo keeps for entryToday, and the message of the card
  entryToday, motivation,
  isSubmitting, editOpen, selectedEntry, editWeight, editNote, editDate,
  isSavingEdit, deleteConfirmOpen, isDeleting,
  \* calls in flight, each with the values its closure captured
  loads, setupOps, todayOps, editOps, deleteOps, resetOps,
  \* the handler step taken last and its outcome
  ev,
  \* the operations the user has started
  ops

storeVars == <<dbUsers, dbEntries, nextUserId, nextEntryId>>
envVars == <<storageId, now, tz, reloads>>
dataVars == <<isLoading, userProfile, weightEntries, currentUserId, hasLoadedFromStorage>>
setupVars == <<isSubmitting>>
editVars == <<editOpen, selectedEntry, editWeight, editNote, editDate>>
busyVars == <<isSavingEdit, deleteConfirmOpen, isDeleting>>
opVars == <<loads, setupOps, todayOps, editOps, deleteOps, resetOps>>
vars == <<storeVars, envVars, dataVars, entryToday, motivation, setupVars, editVars,
          busyVars, opVars, ev, ops>>

NullProfile == [id |-> 0, start_weight |-> 0, goal_weight |-> 0]
NullEntry == [id |-> 0, user_id |-> 0, date |-> 0, weight |-> 0, note |-> ""]

Ev(op, out) == [op |-> op, out |-> out]

\* ------------------------------------------------------------ dates
\* the local calendar day an instant falls on
LocalDay(date) == (date + tz) \div DayLen

\* date-fns startOfDay: the instant of local midnight of the instant's day
startOfDay(date) == LocalDay(date) * DayLen - tz

\* date-fns isSameDay
isSameDay(dateLeft, dateRight) == startOfDay(dateLeft) = startOfDay(dateRight)

\* date-fns differenceInDays: full days between two instants, truncated to zero
differenceInDays(dateLeft, dateRight) ==
  IF dateLeft >= dateRight
    THEN (dateLeft - dateRight) \div DayLen
    ELSE -((dateRight - dateLeft) \div DayLen)

\* date-fns format(date, "yyyy-MM-dd"): the text of the local day
format(date) == <<LocalDay(date)>>

\* new Date("yyyy-MM-dd"): a date-only text is read as midnight UTC
NewDate(text) == text[1] * DayLen

\* ------------------------------------------------------------ statistics
Rat(n, d) == [n |-> n, d |-> d]

\* (a / b) * k for integers with b # 0, as a fraction with a positive denominator
Quot(a, b, k) == Rat(a * k * Sign(b), Abs(b))

RatSign(r) == Sign(r.n)

RatEq(r, q) == r.n * q.d = q.n * r.d

RatLeq(r, q) == r.n * q.d <= q.n * r.d

NoStats ==
  [has |-> FALSE, currentWeight |-> 0, totalChange |-> 0, daysTracked |-> 1,
   weeklyAvg |-> Rat(0, 1), goalProgress |-> Rat(0, 1), streak |-> 0]

goalProgressOf(profile, totalChange) ==
  IF profile.goal_weight # 0 /\ totalChange < 0
    THEN LET totalToLose == profile.start_weight - profile.goal_weight
             ratio == IF totalToLose = 0
                        THEN Rat(101, 1)    \* x / 0 = Infinity, above 100
                        ELSE Quot(Abs(totalChange), totalToLose, 100)
         IN  IF RatLeq(Rat(100, 1), ratio) THEN Rat(100, 1) ELSE ratio
    ELSE Rat(0, 1)

RECURSIVE streakFrom(_, _, _)
streakFrom(entries, i, s) ==
  IF i > Len(entries) - 1
    THEN s
    ELSE IF differenceInDays(startOfDay(entries[i].date),
                             startOfDay(entries[i + 1].date)) = 1
           THEN streakFrom(entries, i + 1, s + 1)
           ELSE s

\* (mutant) the count starts at nothing and a short list is not set apart
streakOf_FromZero(entries) == streakFrom(entries, 1, 0)

streakOf(entries) == IF Len(entries) < 2 THEN 1 ELSE streakFrom(entries, 1, 1)

daysTrackedOf(latest, first) ==
  LET d == differenceInDays(latest.date, first.date) IN IF d = 0 THEN 1 ELSE d

\* (mutant) a list of one entry is taken for no data
statsOf_NullWhenSingle(profile, entries) ==
  IF profile.id = 0 \/ Len(entries) <= 1
    THEN NoStats
    ELSE [has |-> TRUE,
          currentWeight |-> entries[1].weight,
          totalChange |-> entries[1].weight - entries[Len(entries)].weight,
          daysTracked |-> daysTrackedOf(entries[1], entries[Len(entries)]),
          weeklyAvg |-> Quot(entries[1].weight - entries[Len(entries)].weight,
                             daysTrackedOf(entries[1], entries[Len(entries)]), 7),
          goalProgress |-> goalProgressOf(profile, entries[1].weight
                                                     - entries[Len(entries)].weight),
          streak |-> streakOf(entries)]

statsOf(profile, entries) ==
  IF profile.id = 0 \/ Len(entries) = 0
    THEN NoStats
    ELSE LET latest == entries[1]
             first == entries[Len(entries)]
             totalChange == latest.weight - first.weight
             daysTracked == daysTrackedOf(latest, first)
         IN  [has |-> TRUE,
              currentWeight |-> latest.weight,
              totalChange |-> totalChange,
              daysTracked |-> daysTracked,
              weeklyAvg |-> Quot(totalChange, daysTracked, 7),
              goalProgress |-> goalProgressOf(profile, totalChange),
              streak |-> streakOf(entries)]

stats == statsOf(userProfile, weightEntries)

entryTodayOf(entries) ==
  IF \E i \in 1..Len(entries) : isSameDay(entries[i].date, now)
    THEN entries[CHOOSE i \in 1..Len(entries) :
                   /\ isSameDay(entries[i].date, now)
                   /\ \A j \in 1..(i - 1) : ~isSameDay(entries[j].date, now)]
    ELSE NullEntry

\* useMemo(() => ..., [weightEntries]): the value is computed again, on the
\* clock of that render, only when a handler has set the list or the page
\* was mounted; until then the value of the earlier render is kept
ListSet ==
  \/ ev'.op = "mount"
  \/ ev'.out \in {"loaded", "logged", "updated", "deleted", "done"}
  \/ weightEntries' # weightEntries

MemoEntryToday ==
  entryToday' = IF ListSet THEN entryTodayOf(weightEntries)' ELSE entryToday

\* ------------------------------------------------------------ motivation
Message(title, mood) == [title |-> title, mood |-> mood]

celebrate ==
  {Message("You're unstoppable", "celebrate"),
   Message("Goal progress unlocked", "celebrate"),
   Message("Momentum is on your side", "celebrate"),
   Message("Consistency beats talent", "celebrate")}

good ==
  {Message("Small steps = big results", "good"),
   Message("You're building the habit", "good"),
   Message("Progress is invisible until it's not", "good")}

warning ==
  {Message("Fluctuations are normal", "warning"),
   Message("Don't quit. Adjust", "warning")}

neutral ==
  {Message("Today is a checkpoint", "neutral"),
   Message("Future you is watching", "neutral")}

GoalAchieved == Message("Goal achieved", "celebrate")

\* stats?.currentWeight ?? user.start_weight
currentOf(user, st) == IF st.has THEN st.currentWeight ELSE user.start_weight

\* stats?.weeklyAvg ?? 0
weeklyOf(st) == IF st.has THEN st.weeklyAvg ELSE Rat(0, 1)

\* the messages pickRandom may return once an entry for today exists
motivationLogged(user, st) ==
  IF user.goal_weight # 0 /\ currentOf(user, st) <= user.goal_weight
    THEN {GoalAchieved}
    ELSE IF RatSign(weeklyOf(st)) < 0
           THEN celebrate \cup good
           ELSE IF RatSign(weeklyOf(st)) > 0 /\ user.goal_weight # 0
                  THEN warning
                  ELSE good \cup neutral

\* useState<Motivation | null>(null)
NoMotivation == Message("", "none")

\* (mutant) whether today has an entry is not looked at
buildMotivation_SkipsToday(user, st, today) == motivationLogged(user, st)

\* the messages buildMotivation may return
buildMotivation(user, st, today) ==
  IF today.id = 0 THEN neutral ELSE motivationLogged(user, st)

\* the effect's dependencies [userProfile, stats, entryToday]: a handler has set
\* the profile or the list, so that a new stats object was computed
DepsSet == ListSet \/ ev'.out = "getentries" \/ userProfile' # userProfile

\* useEffect(() => { if (!userProfile || !stats) return; setMotivation(...) }):
\* a mounted page has no message; the effect picks a new one when it runs with
\* a profile and statistics, and leaves the message alone otherwise
MotivationEffect ==
  motivation' \in
    IF ev'.op = "mount"
      THEN {NoMotivation}
      ELSE IF DepsSet /\ userProfile'.id # 0 /\ stats'.has
             THEN buildMotivation(userProfile, stats, entryToday)'
             ELSE {motivation}

\* ------------------------------------------------------------ the store
UserRows(uid) == {u \in dbUsers : u.id = uid}

EntryRows(uid) == {e \in dbEntries : e.user_id = uid}

IsSortedDesc(entries) ==
  \A i \in 1..(Len(entries) - 1) : entries[i].date >= entries[i + 1].date

SeqRange(s) == {s[i] : i \in 1..Len(s)}

\* SELECT ... ORDER BY date DESC: any order of the rows that is descending by date
RECURSIVE OrderByDateDesc(_)
OrderByDateDesc(rows) ==
  IF rows = {}
    THEN {<<>>}
    ELSE LET top == {e \in rows : \A f \in rows : e.date >= f.date}
         IN  UNION {{<<e>> \o rest : rest \in OrderByDateDesc(rows \ {e})} : e \in top}

\* db.createUser: INSERT INTO user_profiles ... RETURNING *
dbCreateUser(startWeight, goalWeight) ==
  [id |-> nextUserId, start_weight |-> startWeight, goal_weight |-> goalWeight]

\* INSERT INTO weight_entries (user_id, weight, note, date) VALUES (..., NOW())
dbCreateEntry(userId, weight, note) ==
  [id |-> nextEntryId, user_id |-> userId, date |-> now, weight |-> weight, note |-> note]

\* UPDATE weight_entries SET weight, note, date WHERE id = entryId RETURNING *
dbUpdateEntry(entryId, weight, note, date) ==
  {[e EXCEPT !.weight = weight, !.note = note, !.date = date] :
     e \in {r \in dbEntries : r.id = entryId}}

\* DELETE FROM weight_entries WHERE id = entryId
dbDeleteEntry(entryId) == {e \in dbEntries : e.id # entryId}

\* db.deleteUser: DELETE FROM user_profiles WHERE id = userId
\* (mutant) the profile row is left in place
dbDeleteUser_KeepsRow(userId) == dbUsers

dbDeleteUser(userId) == {u \in dbUsers : u.id # userId}

\* the entries' foreign key: the rows whose profile is no longer among users go with it
CascadeEntries(users) == {e \in dbEntries : \E u \in users : u.id = e.user_id}

\* ------------------------------------------------------------ construction
Init ==
  /\ dbUsers = {} /\ dbEntries = {} /\ nextUserId = 1 /\ nextEntryId = 1
  /\ storageId = 0 /\ now = 0 /\ tz \in TzOffsets /\ reloads = 0 /\ ops = 0
  /\ isLoading = TRUE /\ userProfile = NullProfile /\ weightEntries = <<>>
  /\ entryToday = NullEntry /\ motivation = NoMotivation
  /\ currentUserId = 0 /\ hasLoadedFromStorage = FALSE
  /\ isSubmitting = FALSE
  /\ editOpen = FALSE /\ selectedEntry = NullEntry
  /\ editWeight = <<>> /\ editNote = "" /\ editDate = <<>>
  /\ isSavingEdit = FALSE /\ deleteConfirmOpen = FALSE /\ isDeleting = FALSE
  /\ loads = {} /\ setupOps = {} /\ todayOps = {} /\ editOps = {}
  /\ deleteOps = {} /\ resetOps = {}
  /\ ev = Ev("mount", "")

\* the load effect runs again when currentUserId or hasLoadedFromStorage changed,
\* and sets its timer only once the storage was read
LoadEffect(pending, newUserId, newLoaded) ==
  IF (newUserId # currentUserId \/ newLoaded # hasLoadedFromStorage) /\ newLoaded
    THEN pending \cup {[uid |-> newUserId, stage |-> "timer", rows |-> <<>>]}
    ELSE pending

\* the dashboard is rendered, the setup screen otherwise (once loading ended)
DashboardShown == ~isLoading /\ userProfile.id # 0

SetupShown == ~isLoading /\ userProfile.id = 0

\* ------------------------------------------------------------ mount and load
\* useEffect(() => { read localStorage }, [])
InitLocalStorage ==
  /\ ~hasLoadedFromStorage
  /\ currentUserId' = IF storageId # 0 THEN storageId ELSE currentUserId
  /\ hasLoadedFromStorage' = TRUE
  /\ loads' = LoadEffect(loads, currentUserId', TRUE)
  /\ ev' = Ev("initLocalStorage", "")
  /\ UNCHANGED <<storeVars, envVars, isLoading, userProfile, weightEntries,
                 setupVars, editVars, busyVars,
                 setupOps, todayOps, editOps, deleteOps, resetOps>>

\* the catch and finally blocks of load
LoadFailed(l) ==
  /\ storageId' = 0
  /\ currentUserId' = 0
  /\ isLoading' = FALSE
  /\ loads' = LoadEffect(loads \ {l}, 0, hasLoadedFromStorage)
  /\ ev' = Ev("load", "failed")
  /\ UNCHANGED <<storeVars, now, tz, reloads, userProfile, weightEntries,
                 hasLoadedFromStorage, setupVars, editVars, busyVars,
                 setupOps, todayOps, editOps, deleteOps, resetOps>>

\* the timer fires: load runs up to its first request
LoadStart(l) ==
  /\ l \in loads /\ l.stage = "timer"
  /\ IF l.uid = 0
       THEN /\ isLoading' = FALSE
            /\ loads' = loads \ {l}
            /\ ev' = Ev("load", "nouser")
       ELSE /\ isLoading' = isLoading
            /\ loads' = (loads \ {l}) \cup {[l EXCEPT !.stage = "user"]}
            /\ ev' = Ev("load", "getuser")
  /\ UNCHANGED <<storeVars, envVars, userProfile, weightEntries, currentUserId,
                 hasLoadedFromStorage, setupVars, editVars, busyVars,
                 setupOps, todayOps, editOps, deleteOps, resetOps>>

\* GET /api/user answers: the profile is set and the entries are requested
LoadUserDone(l, ok) ==
  /\ l \in loads /\ l.stage = "user"
  /\ IF ok /\ UserRows(l.uid) # {}
       THEN LET user == CHOOSE u \in UserRows(l.uid) : TRUE
            IN  /\ userProfile' = [user EXCEPT
                                     !.start_weight = safeToNumber(user.start_weight),
                                     !.goal_weight = IF user.goal_weight # 0
                                                       THEN safeToNumber(user.goal_weight)
                                                       ELSE 0]
                /\ loads' = (loads \ {l}) \cup {[l EXCEPT !.stage = "entries"]}
                /\ ev' = Ev("load", "getentries")
                /\ UNCHANGED <<storeVars, envVars, isLoading, weightEntries, currentUserId,
                               hasLoadedFromStorage, setupVars, editVars, busyVars,
                               setupOps, todayOps, editOps, deleteOps, resetOps>>
       ELSE LoadFailed(l)

\* GET /api/entries is served: the route reads the rows of the user as they are now
LoadEntriesServed(l) ==
  /\ l \in loads /\ l.stage = "entries"
  /\ \E entries \in OrderByDateDesc(EntryRows(l.uid)) :
       loads' = (loads \ {l}) \cup {[l EXCEPT !.stage = "rows", !.rows = entries]}
  /\ ev' = Ev("load", "served")
  /\ UNCHANGED <<storeVars, envVars, dataVars, setupVars, editVars, busyVars,
                 setupOps, todayOps, editOps, deleteOps, resetOps>>

\* GET /api/entries answers: the list is replaced by the rows that were read
LoadEntriesDone(l, ok) ==
  /\ l \in loads /\ l.stage = "rows"
  /\ IF ok
       THEN /\ weightEntries' = [i \in 1..Len(l.rows) |->
                                   [l.rows[i] EXCEPT !.weight = safeToNumber(@)]]
            /\ isLoading' = FALSE
            /\ loads' = loads \ {l}
            /\ ev' = Ev("load", "loaded")
            /\ UNCHANGED <<storeVars, envVars, userProfile, currentUserId,
                           hasLoadedFromStorage, setupVars, editVars, busyVars,
                           setupOps, todayOps, editOps, deleteOps, resetOps>>
       ELSE LoadFailed(l)

\* the window is closed and opened again: the component is constructed anew,
\* the store and localStorage stay, the calls in flight are abandoned
Reload ==
  /\ reloads < MaxReloads
  /\ reloads' = reloads + 1
  /\ isLoading' = TRUE /\ userProfile' = NullProfile /\ weightEntries' = <<>>
  /\ currentUserId' = 0 /\ hasLoadedFromStorage' = FALSE
  /\ isSubmitting' = FALSE
  /\ editOpen' = FALSE /\ selectedEntry' = NullEntry
  /\ editWeight' = <<>> /\ editNote' = "" /\ editDate' = <<>>
  /\ isSavingEdit' = FALSE /\ deleteConfirmOpen' = FALSE /\ isDeleting' = FALSE
  /\ loads' = {} /\ setupOps' = {} /\ todayOps' = {} /\ editOps' = {}
  /\ deleteOps' = {} /\ resetOps' = {}
  /\ ev' = Ev("mount", "")
  /\ UNCHANGED <<storeVars, storageId, now, tz>>

\* time passes
Tick ==
  /\ now < MaxNow
  /\ now' = now + 1
  /\ ev' = Ev("tick", "")
  /\ UNCHANGED <<storeVars, storageId, tz, reloads, dataVars, setupVars, editVars,
                 busyVars, opVars>>

\* ------------------------------------------------------------ API routes
\* POST /api/user: 400 without a name or a start weight
PostUserAccepts(name, startWeight) == name # ""

\* POST /api/entries: 400 when userId or weight is falsy
PostEntryAccepts(userId, weight) == userId # 0 /\ weight # 0

\* the entries' foreign key: an entry is inserted for an existing profile only
ForeignKeyHolds(userId) == UserRows(userId) # {}

\* PATCH /api/entries: 400 without an entry id, 404 when no row was updated
PatchEntryAccepts(entryId) == entryId # 0 /\ \E e \in dbEntries : e.id = entryId

\* inserts still allowed by the bound on the ids
PendingInserts == Cardinality(setupOps) + Cardinality(todayOps)

CanInsert == nextEntryId + PendingInserts <= MaxEntryId

NoDialog == ~editOpen /\ ~deleteConfirmOpen

\* ------------------------------------------------------------ setup
\* handleSetupSubmit up to the POST /api/user request
handleSetupSubmit(name, weightText, goalText) ==
  /\ SetupShown /\ ~isSubmitting
  /\ IF name = "" \/ ~Truthy(weightText)
       THEN /\ ev' = Ev("setup", "invalid")
            /\ UNCHANGED <<isSubmitting, setupOps>>
       ELSE /\ setupOps = {} /\ nextUserId <= MaxUserId /\ CanInsert
            /\ isSubmitting' = TRUE
            /\ setupOps' = {[stage |-> "user", name |-> name,
                             startWeight |-> parseFloat(weightText),
                             goalWeight |-> IF Truthy(goalText) THEN parseFloat(goalText) ELSE 0,
                             user |-> NullProfile,
                             before |-> <<userProfile, weightEntries, currentUserId>>]}
            /\ ev' = Ev("setup", "postuser")
  /\ UNCHANGED <<storeVars, envVars, dataVars, editVars, busyVars,
                 loads, todayOps, editOps, deleteOps, resetOps>>

\* (mutant) the flag is not lowered when the attempt fails
SetupFailed_StaysBusy(op) ==
  /\ isSubmitting' = isSubmitting
  /\ setupOps' = setupOps \ {op}
  /\ ev' = Ev("setup", "failed")

\* (mutant) the attempt goes on to its second call after the failure
SetupFailed_KeepsOp(op) ==
  /\ isSubmitting' = FALSE
  /\ setupOps' = (setupOps \ {op}) \cup {[op EXCEPT !.stage = "entry"]}
  /\ ev' = Ev("setup", "failed")

\* the catch and finally blocks of handleSetupSubmit
SetupFailed(op) ==
  /\ isSubmitting' = FALSE
  /\ setupOps' = setupOps \ {op}
  /\ ev' = Ev("setup", "failed")

\* POST /api/user answers: the id is stored and bound, the first entry is posted
SetupUserDone(op, ok) ==
  /\ op \in setupOps /\ op.stage = "user"
  /\ IF ok /\ PostUserAccepts(op.name, op.startWeight)
       THEN LET newUser == dbCreateUser(op.startWeight, op.goalWeight)
                processedUser ==
                  [newUser EXCEPT !.start_weight = safeToNumber(newUser.start_weight),
                                  !.goal_weight = IF newUser.goal_weight # 0
                                                    THEN safeToNumber(newUser.goal_weight)
                                                    ELSE 0]
            IN  /\ dbUsers' = dbUsers \cup {newUser}
                /\ nextUserId' = nextUserId + 1
                /\ storageId' = newUser.id
                /\ currentUserId' = newUser.id
                /\ hasLoadedFromStorage' = TRUE
                /\ loads' = LoadEffect(loads, newUser.id, TRUE)
                /\ setupOps' = (setupOps \ {op}) \cup
                                 {[op EXCEPT !.stage = "entry", !.user = processedUser]}
                /\ ev' = Ev("setup", "postentry")
                /\ UNCHANGED <<dbEntries, nextEntryId, now, tz, reloads, isLoading,
                               userProfile, weightEntries, isSubmitting>>
       ELSE /\ SetupFailed(op)
            /\ UNCHANGED <<storeVars, envVars, dataVars, loads>>
  /\ UNCHANGED <<editVars, busyVars, todayOps, editOps, deleteOps, resetOps>>

\* POST /api/entries answers: the profile and the one-entry list are shown
SetupEntryDone(op, ok) ==
  /\ op \in setupOps /\ op.stage = "entry"
  /\ IF ok /\ PostEntryAccepts(op.user.id, op.startWeight) /\ ForeignKeyHolds(op.user.id)
       THEN LET initialEntry == dbCreateEntry(op.user.id, op.startWeight, "Starting point")
                processedEntry == [initialEntry EXCEPT !.weight = safeToNumber(@)]
            IN  /\ dbEntries' = dbEntries \cup {initialEntry}
                /\ nextEntryId' = nextEntryId + 1
                /\ userProfile' = op.user
                /\ weightEntries' = <<processedEntry>>
                /\ isSubmitting' = FALSE
                /\ setupOps' = setupOps \ {op}
                /\ ev' = Ev("setup", "done")
                /\ UNCHANGED <<dbUsers, nextUserId>>
       ELSE /\ SetupFailed(op)
            /\ UNCHANGED <<storeVars, userProfile, weightEntries>>
  /\ UNCHANGED <<envVars, isLoading, currentUserId, hasLoadedFromStorage, editVars,
                 busyVars, loads, todayOps, editOps, deleteOps, resetOps>>

\* ------------------------------------------------------------ log today
\* the fields openEditModal and handleSaveToday fill for an entry
EditPrefilled(entry) ==
  /\ selectedEntry' = entry
  /\ editWeight' = String(entry.weight)
  /\ editNote' = entry.note
  /\ editDate' = format(entry.date)
  /\ editOpen' = TRUE

FreeSlot == CHOOSE k \in 1..MaxToday : \A op \in todayOps : op.k # k

\* handleSaveToday up to the POST /api/entries request
handleSaveToday(weightText) ==
  /\ DashboardShown /\ NoDialog
  /\ IF ~Truthy(weightText) \/ userProfile.id = 0
       THEN /\ ev' = Ev("saveToday", "ignored")
            /\ UNCHANGED <<editVars, todayOps>>
       ELSE IF isNaN(parseFloat(weightText))
         THEN /\ ev' = Ev("saveToday", "invalid")
              /\ UNCHANGED <<editVars, todayOps>>
         ELSE IF entryToday.id # 0
           THEN /\ EditPrefilled(entryToday)
                /\ ev' = Ev("saveToday", "edit")
                /\ UNCHANGED todayOps
           ELSE /\ Cardinality(todayOps) < MaxToday /\ CanInsert
                /\ todayOps' = todayOps \cup
                                 {[k |-> FreeSlot, uid |-> userProfile.id,
                                   weight |-> parseFloat(weightText),
                                   entries |-> weightEntries]}
                /\ ev' = Ev("saveToday", "post")
                /\ UNCHANGED editVars
  /\ UNCHANGED <<storeVars, envVars, dataVars, setupVars, busyVars,
                 loads, setupOps, editOps, deleteOps, resetOps>>

\* POST /api/entries answers: the new entry is put before the captured list
SaveTodayDone(op, ok) ==
  /\ op \in todayOps
  /\ todayOps' = todayOps \ {op}
  /\ IF ok /\ PostEntryAccepts(op.uid, op.weight) /\ ForeignKeyHolds(op.uid)
       THEN LET newEntry == dbCreateEntry(op.uid, op.weight, "Daily entry")
                processed == [newEntry EXCEPT !.weight = safeToNumber(@)]
            IN  /\ dbEntries' = dbEntries \cup {newEntry}
                /\ nextEntryId' = nextEntryId + 1
                /\ weightEntries' = <<processed>> \o op.entries
                /\ ev' = Ev("saveToday", "logged")
       ELSE /\ ev' = Ev("saveToday", "failed")
            /\ UNCHANGED <<dbEntries, nextEntryId, weightEntries>>
  /\ UNCHANGED <<dbUsers, nextUserId, envVars, isLoading, userProfile, currentUserId,
                 hasLoadedFromStorage, setupVars, editVars, busyVars,
                 loads, setupOps, editOps, deleteOps, resetOps>>

\* ------------------------------------------------------------ edit
openEditModal(entry) ==
  /\ DashboardShown /\ NoDialog
  /\ entry \in SeqRange(weightEntries)
  /\ EditPrefilled(entry)
  /\ ev' = Ev("openEdit", "")
  /\ UNCHANGED <<storeVars, envVars, dataVars, setupVars, busyVars, opVars>>

EditDialogShown == editOpen /\ ~deleteConfirmOpen

TypeEditWeight(text) ==
  /\ EditDialogShown /\ text # editWeight
  /\ editWeight' = text
  /\ ev' = Ev("type", "weight")
  /\ UNCHANGED <<storeVars, envVars, dataVars, setupVars, busyVars, opVars,
                 editOpen, selectedEntry, editNote, editDate>>

TypeEditDate(text) ==
  /\ EditDialogShown /\ text # editDate
  /\ editDate' = text
  /\ ev' = Ev("type", "date")
  /\ UNCHANGED <<storeVars, envVars, dataVars, setupVars, busyVars, opVars,
                 editOpen, selectedEntry, editWeight, editNote>>

TypeEditNote(text) ==
  /\ EditDialogShown /\ text # editNote
  /\ editNote' = text
  /\ ev' = Ev("type", "note")
  /\ UNCHANGED <<storeVars, envVars, dataVars, setupVars, busyVars, opVars,
                 editOpen, selectedEntry, editWeight, editDate>>

\* the Cancel button of the edit dialog
CancelEdit ==
  /\ EditDialogShown
  /\ editOpen' = FALSE
  /\ ev' = Ev("cancelEdit", "")
  /\ UNCHANGED <<storeVars, envVars, dataVars, setupVars, busyVars, opVars,
                 selectedEntry, editWeight, editNote, editDate>>

\* the entry of the list, other than the selected one, on the day of newDate
Collides(entries, selectedId, newDate) ==
  \E i \in 1..Len(entries) :
    entries[i].id # selectedId /\ isSameDay(entries[i].date, newDate)

\* entries.sort((a, b) => b.date - a.date): a stable sort, latest first
RECURSIVE InsertDesc(_, _)
InsertDesc(sorted, e) ==
  IF sorted = <<>>
    THEN <<e>>
    ELSE IF Head(sorted).date >= e.date
           THEN <<Head(sorted)>> \o InsertDesc(Tail(sorted), e)
           ELSE <<e>> \o sorted

RECURSIVE SortDesc(_)
SortDesc(entries) ==
  IF entries = <<>>
    THEN <<>>
    ELSE InsertDesc(SortDesc(SubSeq(entries, 1, Len(entries) - 1)),
                    entries[Len(entries)])

\* handleSaveEdit up to the PATCH /api/entries request
handleSaveEdit ==
  /\ EditDialogShown /\ ~isSavingEdit
  /\ IF selectedEntry.id = 0
       THEN /\ ev' = Ev("saveEdit", "ignored")
            /\ UNCHANGED <<isSavingEdit, editOps>>
       ELSE IF isNaN(parseFloat(editWeight))
         THEN /\ ev' = Ev("saveEdit", "invalid")
              /\ UNCHANGED <<isSavingEdit, editOps>>
         ELSE IF ~Truthy(editDate)
           \* new Date("") is invalid: no collision, and toISOString throws
           THEN /\ ev' = Ev("saveEdit", "failed")
                /\ UNCHANGED <<isSavingEdit, editOps>>
           ELSE IF Collides(weightEntries, selectedEntry.id, NewDate(editDate))
             THEN /\ ev' = Ev("saveEdit", "collision")
                  /\ UNCHANGED <<isSavingEdit, editOps>>
             ELSE /\ editOps = {}
                  /\ isSavingEdit' = TRUE
                  /\ editOps' = {[selected |-> selectedEntry,
                                  weight |-> parseFloat(editWeight),
                                  note |-> editNote,
                                  date |-> NewDate(editDate),
                                  entries |-> weightEntries]}
                  /\ ev' = Ev("saveEdit", "patch")
  /\ UNCHANGED <<storeVars, envVars, dataVars, setupVars, editVars,
                 deleteConfirmOpen, isDeleting,
                 loads, setupOps, todayOps, deleteOps, resetOps>>

\* PATCH /api/entries answers: the returned row replaces the entry in the captured
\* list, the list is sorted again and the dialog closes
SaveEditDone(op, ok) ==
  /\ op \in editOps
  /\ editOps' = editOps \ {op}
  /\ isSavingEdit' = FALSE
  /\ IF ok /\ PatchEntryAccepts(op.selected.id)
       THEN LET rows == dbUpdateEntry(op.selected.id, op.weight, op.note, op.date)
                updated == CHOOSE r \in rows : TRUE
                updatedEntry == [updated EXCEPT !.weight = safeToNumber(@),
                                                !.note = op.note]
                newEntries == SortDesc([i \in 1..Len(op.entries) |->
                                          IF op.entries[i].id = op.selected.id
                                            THEN updatedEntry
                                            ELSE op.entries[i]])
            IN  /\ dbEntries' = {e \in dbEntries : e.id # op.selected.id} \cup rows
                /\ weightEntries' = newEntries
                /\ editOpen' = FALSE
                /\ ev' = Ev("saveEdit", "updated")
       ELSE /\ ev' = Ev("saveEdit", "failed")
            /\ UNCHANGED <<dbEntries, weightEntries, editOpen>>
  /\ UNCHANGED <<dbUsers, nextUserId, nextEntryId, envVars, isLoading, userProfile,
                 currentUserId, hasLoadedFromStorage, setupVars,
                 selectedEntry, editWeight, editNote, editDate,
                 deleteConfirmOpen, isDeleting,
                 loads, setupOps, todayOps, deleteOps, resetOps>>

\* ------------------------------------------------------------ delete
\* the Delete button of the edit dialog and the Cancel button of the confirmation
OpenDeleteConfirm ==
  /\ EditDialogShown
  /\ deleteConfirmOpen' = TRUE
  /\ ev' = Ev("openDelete", "")
  /\ UNCHANGED <<storeVars, envVars, dataVars, setupVars, editVars,
                 isSavingEdit, isDeleting, opVars>>

CancelDelete ==
  /\ deleteConfirmOpen
  /\ deleteConfirmOpen' = FALSE
  /\ ev' = Ev("cancelDelete", "")
  /\ UNCHANGED <<storeVars, envVars, dataVars, setupVars, editVars,
                 isSavingEdit, isDeleting, opVars>>

\* handleDeleteEntry up to the DELETE /api/entries request
handleDeleteEntry ==
  /\ deleteConfirmOpen /\ ~isDeleting
  /\ IF selectedEntry.id = 0
       THEN /\ ev' = Ev("delete", "ignored")
            /\ UNCHANGED <<isDeleting, deleteOps>>
       ELSE /\ deleteOps = {}
            /\ isDeleting' = TRUE
            /\ deleteOps' = {[selected |-> selectedEntry, entries |-> weightEntries]}
            /\ ev' = Ev("delete", "request")
  /\ UNCHANGED <<storeVars, envVars, dataVars, setupVars, editVars,
                 isSavingEdit, deleteConfirmOpen,
                 loads, setupOps, todayOps, editOps, resetOps>>

\* entries.filter((e) => e.id !== id)
RECURSIVE FilterOut(_, _)
FilterOut(entries, id) ==
  IF entries = <<>>
    THEN <<>>
    ELSE IF Head(entries).id = id
           THEN FilterOut(Tail(entries), id)
           ELSE <<Head(entries)>> \o FilterOut(Tail(entries), id)

\* DELETE /api/entries answers: the entry leaves the captured list, the dialogs close
DeleteDone(op, ok) ==
  /\ op \in deleteOps
  /\ deleteOps' = deleteOps \ {op}
  /\ isDeleting' = FALSE
  /\ IF ok
       THEN /\ dbEntries' = dbDeleteEntry(op.selected.id)
            /\ weightEntries' = FilterOut(op.entries, op.selected.id)
            /\ deleteConfirmOpen' = FALSE
            /\ editOpen' = FALSE
            /\ ev' = Ev("delete", "deleted")
       ELSE /\ ev' = Ev("delete", "failed")
            /\ UNCHANGED <<dbEntries, weightEntries, deleteConfirmOpen, editOpen>>
  /\ UNCHANGED <<dbUsers, nextUserId, nextEntryId, envVars, isLoading, userProfile,
                 currentUserId, hasLoadedFromStorage, setupVars,
                 selectedEntry, editWeight, editNote, editDate, isSavingEdit,
                 loads, setupOps, todayOps, editOps, resetOps>>

\* ------------------------------------------------------------ reset
\* handleResetAll: the toast asking for confirmation is shown
handleResetAll ==
  /\ DashboardShown /\ NoDialog
  /\ IF userProfile.id = 0
       THEN /\ ev' = Ev("reset", "ignored")
            /\ UNCHANGED resetOps
       ELSE /\ resetOps = {}
            /\ resetOps' = {[uid |-> userProfile.id, stage |-> "toast"]}
            /\ ev' = Ev("reset", "asked")
  /\ UNCHANGED <<storeVars, envVars, dataVars, setupVars, editVars, busyVars,
                 loads, setupOps, todayOps, editOps, deleteOps>>

\* the toast's Reset action is clicked: DELETE /api/user is requested
ResetConfirm(op) ==
  /\ op \in resetOps /\ op.stage = "toast"
  /\ resetOps' = (resetOps \ {op}) \cup {[op EXCEPT !.stage = "call"]}
  /\ ev' = Ev("reset", "request")
  /\ UNCHANGED <<storeVars, envVars, dataVars, setupVars, editVars, busyVars,
                 loads, setupOps, todayOps, editOps, deleteOps>>

\* (mutant) the client forgets the profile before the answer is known
ResetDone_ClearsFirst(op, ok) ==
  /\ op \in resetOps /\ op.stage = "call"
  /\ resetOps' = resetOps \ {op}
  /\ storageId' = 0
  /\ userProfile' = NullProfile
  /\ weightEntries' = <<>>
  /\ currentUserId' = 0
  /\ hasLoadedFromStorage' = TRUE
  /\ loads' = LoadEffect(loads, 0, TRUE)
  /\ IF ok
       THEN /\ dbUsers' = dbDeleteUser(op.uid)
            /\ dbEntries' = CascadeEntries(dbDeleteUser(op.uid))
            /\ ev' = Ev("reset", "done")
       ELSE /\ ev' = Ev("reset", "failed")
            /\ UNCHANGED <<dbUsers, dbEntries>>
  /\ UNCHANGED <<nextUserId, nextEntryId, now, tz, reloads, isLoading,
                 setupVars, editVars, busyVars, setupOps, todayOps, editOps, deleteOps>>

\* DELETE /api/user answers: the stored id, the profile and the list are cleared
ResetDone(op, ok) ==
  /\ op \in resetOps /\ op.stage = "call"
  /\ resetOps' = resetOps \ {op}
  /\ IF ok
       THEN /\ dbUsers' = dbDeleteUser(op.uid)
            /\ dbEntries' = CascadeEntries(dbDeleteUser(op.uid))
            /\ storageId' = 0
            /\ userProfile' = NullProfile
            /\ weightEntries' = <<>>
            /\ currentUserId' = 0
            /\ hasLoadedFromStorage' = TRUE
            /\ loads' = LoadEffect(loads, 0, TRUE)
            /\ ev' = Ev("reset", "done")
       ELSE /\ ev' = Ev("reset", "failed")
            /\ UNCHANGED <<dbUsers, dbEntries, storageId, userProfile, weightEntries,
                           currentUserId, hasLoadedFromStorage, loads>>
  /\ UNCHANGED <<nextUserId, nextEntryId, now, tz, reloads, isLoading,
                 setupVars, editVars, busyVars, setupOps, todayOps, editOps, deleteOps>>

\* ------------------------------------------------------------ specification
\* no request and no timer is outstanding
Settled ==
  /\ loads = {} /\ setupOps = {} /\ todayOps = {} /\ editOps = {} /\ deleteOps = {}
  /\ \A op \in resetOps : op.stage = "toast"

\* the user starts an operation, which the bound MaxOps counts
Started(A) ==
  Settled /\ ops < MaxOps /\ A /\ ops' = ops + 1 /\ MemoEntryToday /\ UNCHANGED motivation

\* another gesture of the user (typing, a dialog button), or time passing
Gestured(A) ==
  Settled /\ A /\ ops' = ops /\ MemoEntryToday /\ UNCHANGED motivation

\* an effect, a timer or an answer of the store
Answered(A) ==
  A /\ ops' = ops /\ MemoEntryToday /\ UNCHANGED motivation

\* one client whose user lets each operation finish before starting the next
Next ==
  \/ Started(\E name \in Names, w \in SetupWeightTexts, g \in SetupGoalTexts :
               handleSetupSubmit(name, w, g))
  \/ Started(\E w \in TodayWeightTexts : handleSaveToday(w))
  \/ Started(\E entry \in SeqRange(weightEntries) : openEditModal(entry))
  \/ Started(handleSaveEdit)
  \/ Started(handleDeleteEntry)
  \/ Started(handleResetAll)
  \/ Started(Reload)
  \/ Gestured(\E text \in EditWeightTexts : TypeEditWeight(text))
  \/ Gestured(\E text \in EditDateTexts : TypeEditDate(text))
  \/ Gestured(\E text \in EditNoteTexts : TypeEditNote(text))
  \/ Gestured(CancelEdit)
  \/ Gestured(OpenDeleteConfirm)
  \/ Gestured(CancelDelete)
  \/ Gestured(\E op \in resetOps : ResetConfirm(op))
  \/ Gestured(Tick)
  \/ Answered(InitLocalStorage)
  \/ Answered(\E l \in loads : LoadStart(l))
  \/ Answered(\E l \in loads, ok \in BOOLEAN : LoadUserDone(l, ok))
  \/ Answered(\E l \in loads : LoadEntriesServed(l))
  \/ Answered(\E l \in loads, ok \in BOOLEAN : LoadEntriesDone(l, ok))
  \/ Answered(\E op \in setupOps, ok \in BOOLEAN : SetupUserDone(op, ok))
  \/ Answered(\E op \in setupOps, ok \in BOOLEAN : SetupEntryDone(op, ok))
  \/ Answered(\E op \in todayOps, ok \in BOOLEAN : SaveTodayDone(op, ok))
  \/ Answered(\E op \in editOps, ok \in BOOLEAN : SaveEditDone(op, ok))
  \/ Answered(\E op \in deleteOps, ok \in BOOLEAN : DeleteDone(op, ok))
  \/ Answered(\E op \in resetOps, ok \in BOOLEAN : ResetDone(op, ok))

Spec == Init /\ [][Next]_vars

\* ------------------------------------------------------------ a returning user
StoredWeights == {78, 79, 80}

StoredGoals == {0, 70, 90}

StoredDates == {d * DayLen : d \in 0..MaxStoredDay}

\* what a returning user types into the log-today field
ReturningWeightTexts == {<<>>, <<-1>>, <<79>>}

SessionWeightTexts == {<<78>>}

\* the rows of user 1 after earlier sessions: serial ids in the order of the
\* days logged, one row a calendar day
StoredEntries ==
  UNION {{ {[id |-> i, user_id |-> 1, date |-> f[i].date, weight |-> f[i].weight,
             note |-> ""] : i \in 1..k}
           : f \in {g \in [1..k -> [date : StoredDates, weight : StoredWeights]] :
                      \A i, j \in 1..k : i < j => g[i].date < g[j].date} }
         : k \in 0..MaxStored}

\* the page of a client in the time zone `zone` once its load of the stored
\* profile and entries has completed
Returning(zone) ==
  /\ \E goal \in StoredGoals :
       /\ dbUsers = {[id |-> 1, start_weight |-> 80, goal_weight |-> goal]}
       /\ userProfile = [id |-> 1, start_weight |-> 80, goal_weight |-> goal]
  /\ dbEntries \in StoredEntries
  /\ nextUserId = 2 /\ nextEntryId = Cardinality(dbEntries) + 1
  /\ storageId = 1 /\ now \in 0..MaxNow /\ tz = zone /\ reloads = 0 /\ ops = 0
  /\ isLoading = FALSE
  /\ weightEntries \in OrderByDateDesc(dbEntries)
  /\ entryToday = entryTodayOf(weightEntries)
  /\ currentUserId = 1 /\ hasLoadedFromStorage = TRUE
  /\ isSubmitting = FALSE
  /\ editOpen = FALSE /\ selectedEntry = NullEntry
  /\ editWeight = <<>> /\ editNote = "" /\ editDate = <<>>
  /\ isSavingEdit = FALSE /\ deleteConfirmOpen = FALSE /\ isDeleting = FALSE
  /\ loads = {} /\ setupOps = {} /\ todayOps = {} /\ editOps = {}
  /\ deleteOps = {} /\ resetOps = {}
  /\ ev = Ev("load", "loaded")

\* a returning user in the UTC zone
InitLoaded == Returning(0) /\ motivation = NoMotivation

\* the user starts an operation on the dashboard, which MaxLoadedOps counts
StartedLoaded(A) ==
  Settled /\ ops < MaxLoadedOps /\ A /\ ops' = ops + 1 /\ MemoEntryToday /\ UNCHANGED motivation

\* the dashboard's operations, each let to finish, against a store that answers
NextLoaded ==
  \/ StartedLoaded(\E w \in ReturningWeightTexts : handleSaveToday(w))
  \/ StartedLoaded(\E entry \in SeqRange(weightEntries) : openEditModal(entry))
  \/ StartedLoaded(handleSaveEdit)
  \/ StartedLoaded(handleDeleteEntry)
  \/ Gestured(\E text \in EditWeightTexts : TypeEditWeight(text))
  \/ Gestured(\E text \in EditDateTexts : TypeEditDate(text))
  \/ Gestured(CancelEdit)
  \/ Gestured(OpenDeleteConfirm)
  \/ Gestured(CancelDelete)
  \/ Gestured(Tick)
  \/ Answered(\E op \in todayOps : SaveTodayDone(op, TRUE))
  \/ Answered(\E op \in editOps : SaveEditDone(op, TRUE))
  \/ Answered(\E op \in deleteOps : DeleteDone(op, TRUE))

SpecLoaded == InitLoaded /\ [][NextLoaded]_vars

\* ------------------------------------------------------------ west of UTC
\* a returning user in a zone behind UTC
InitWest == Returning(-1) /\ motivation = NoMotivation

SpecWest == InitWest /\ [][NextLoaded]_vars

\* ------------------------------------------------------------ a long session
\* the message the effect has picked by the end of the load
InitSession ==
  /\ Returning(0)
  /\ motivation \in IF stats.has
                      THEN buildMotivation(userProfile, stats, entryToday)
                      ELSE {NoMotivation}

\* the Refresh button of the card
refreshMotivation ==
  /\ DashboardShown /\ NoDialog /\ motivation # NoMotivation
  /\ motivation' \in IF userProfile.id = 0 \/ ~stats.has
                       THEN {motivation}
                       ELSE buildMotivation(userProfile, stats, entryToday)
  /\ ev' = Ev("refresh", "")
  /\ UNCHANGED <<storeVars, envVars, dataVars, setupVars, editVars, busyVars, opVars>>

\* a step of the page with the card followed, the user's operations counted by
\* MaxSessionOps
StartedSession(A) ==
  Settled /\ ops < MaxSessionOps /\ A /\ ops' = ops + 1 /\ MemoEntryToday
    /\ MotivationEffect

GesturedSession(A) == Settled /\ A /\ ops' = ops /\ MemoEntryToday /\ MotivationEffect

AnsweredSession(A) == A /\ ops' = ops /\ MemoEntryToday /\ MotivationEffect

\* a returning user who keeps the page open: logs, deletes, waits for the next day
NextSession ==
  \/ StartedSession(\E w \in SessionWeightTexts : handleSaveToday(w))
  \/ StartedSession(\E entry \in SeqRange(weightEntries) : openEditModal(entry))
  \/ StartedSession(handleDeleteEntry)
  \/ Settled /\ refreshMotivation /\ ops' = ops /\ entryToday' = entryToday
  \/ GesturedSession(CancelEdit)
  \/ GesturedSession(OpenDeleteConfirm)
  \/ GesturedSession(Tick)
  \/ AnsweredSession(\E op \in todayOps : SaveTodayDone(op, TRUE))
  \/ AnsweredSession(\E op \in deleteOps : DeleteDone(op, TRUE))

SpecSession == InitSession /\ [][NextSession]_vars

\* ------------------------------------------------------------ an impatient user
\* the user starts an operation whether or not earlier ones have been answered
StartedAsync(A) ==
  ops < MaxAsyncOps /\ A /\ ops' = ops + 1 /\ MemoEntryToday /\ UNCHANGED motivation

\* one client against a store that answers every call, in any order
NextAsync ==
  \/ StartedAsync(\E name \in Names, w \in SetupWeightTexts, g \in SetupGoalTexts :
                    handleSetupSubmit(name, w, g))
  \/ StartedAsync(\E w \in TodayWeightTexts : handleSaveToday(w))
  \/ StartedAsync(\E entry \in SeqRange(weightEntries) : openEditModal(entry))
  \/ StartedAsync(handleSaveEdit)
  \/ StartedAsync(handleDeleteEntry)
  \/ Answered(\E text \in EditDateTexts : TypeEditDate(text))
  \/ Answered(CancelEdit)
  \/ Answered(OpenDeleteConfirm)
  \/ Answered(CancelDelete)
  \/ Answered(Tick)
  \/ Answered(InitLocalStorage)
  \/ Answered(\E l \in loads : LoadStart(l))
  \/ Answered(\E l \in loads : LoadUserDone(l, TRUE))
  \/ Answered(\E l \in loads : LoadEntriesServed(l))
  \/ Answered(\E l \in loads : LoadEntriesDone(l, TRUE))
  \/ Answered(\E op \in setupOps : SetupUserDone(op, TRUE))
  \/ Answered(\E op \in setupOps : SetupEntryDone(op, TRUE))
  \/ Answered(\E op \in todayOps : SaveTodayDone(op, TRUE))
  \/ Answered(\E op \in editOps : SaveEditDone(op, TRUE))
  \/ Answered(\E op \in deleteOps : DeleteDone(op, TRUE))

SpecAsync == Init /\ [][NextAsync]_vars

\* ------------------------------------------------------------ a store that answers
\* the operations that raise a busy flag, against a store that may refuse
NextFair ==
  \/ Started(\E name \in Names, w \in SetupWeightTexts, g \in SetupGoalTexts :
               handleSetupSubmit(name, w, g))
  \/ Started(\E w \in TodayWeightTexts : handleSaveToday(w))
  \/ Started(\E entry \in SeqRange(weightEntries) : openEditModal(entry))
  \/ Started(handleSaveEdit)
  \/ Started(handleDeleteEntry)
  \/ Gestured(\E text \in EditWeightTexts : TypeEditWeight(text))
  \/ Gestured(\E text \in EditDateTexts : TypeEditDate(text))
  \/ Gestured(OpenDeleteConfirm)
  \/ Answered(Tick)
  \/ Answered(InitLocalStorage)
  \/ Answered(\E l \in loads : LoadStart(l))
  \/ Answered(\E l \in loads, ok \in BOOLEAN : LoadUserDone(l, ok))
  \/ Answered(\E l \in loads : LoadEntriesServed(l))
  \/ Answered(\E l \in loads, ok \in BOOLEAN : LoadEntriesDone(l, ok))
  \/ Answered(\E op \in setupOps, ok \in BOOLEAN : SetupUserDone(op, ok))
  \/ Answered(\E op \in setupOps, ok \in BOOLEAN : SetupEntryDone(op, ok))
  \/ Answered(\E op \in todayOps, ok \in BOOLEAN : SaveTodayDone(op, ok))
  \/ Answered(\E op \in editOps, ok \in BOOLEAN : SaveEditDone(op, ok))
  \/ Answered(\E op \in deleteOps, ok \in BOOLEAN : DeleteDone(op, ok))

\* every call made is answered, with success or failure
StoreAnswers ==
  /\ WF_vars(Answered(\E op \in setupOps, ok \in BOOLEAN : SetupUserDone(op, ok)))
  /\ WF_vars(Answered(\E op \in setupOps, ok \in BOOLEAN : SetupEntryDone(op, ok)))
  /\ WF_vars(Answered(\E op \in editOps, ok \in BOOLEAN : SaveEditDone(op, ok)))
  /\ WF_vars(Answered(\E op \in deleteOps, ok \in BOOLEAN : DeleteDone(op, ok)))

SpecFair == Init /\ [][NextFair]_vars /\ StoreAnswers

\* ------------------------------------------------------------ properties
\* no two distinct entries of one user on one local calendar day
OnePerDay(entries) ==
  \A e \in entries, f \in entries :
    e.id # f.id /\ e.user_id = f.user_id => LocalDay(e.date) # LocalDay(f.date)

\* C1: after any sequence of setup, log-today, edit-entry, delete-entry and reset
\* operations of one client, no user has two distinct entries on one local calendar
\* day, neither in the store nor in the client's list.
C1_OneEntryPerDay == OnePerDay(dbEntries) /\ OnePerDay(SeqRange(weightEntries))

\* some entry of the list is dated on the local calendar day of now
LoggedToday(entries) ==
  \E i \in 1..Len(entries) : LocalDay(entries[i].date) = LocalDay(now)

\* what C2 asks of a log-today step: no create call, the list as it was, the edit
\* dialog open on an entry of today with its weight, note and date filled in
RoutedToEdit ==
  /\ todayOps' = todayOps /\ UNCHANGED storeVars
  /\ weightEntries' = weightEntries
  /\ editOpen'
  /\ selectedEntry' \in SeqRange(weightEntries)
  /\ LocalDay(selectedEntry'.date) = LocalDay(now)
  /\ editWeight' = <<selectedEntry'.weight>>
  /\ editNote' = selectedEntry'.note
  /\ editDate' = <<LocalDay(selectedEntry'.date)>>

\* C2: a log-today invoked while the list holds an entry of today issues no
\* create call, leaves the list unchanged and opens the edit flow on that entry,
\* pre-filled; it is asked only of a weight text that is not empty and parses to
\* a number, the submission the form's required number field lets through.
C2_ValidLogTodayRoutesToEdit ==
  [][\A w \in TodayWeightTexts :
       handleSaveToday(w) /\ LoggedToday(weightEntries)
         /\ Truthy(w) /\ ~isNaN(parseFloat(w)) => RoutedToEdit]_vars

\* an entry of the list other than the selected one lies on the local day `day`
OtherEntryOn(entries, selectedId, day) ==
  \E i \in 1..Len(entries) :
    entries[i].id # selectedId /\ LocalDay(entries[i].date) = day

\* the save of the edit dialog was refused and nothing was sent or changed
EditRefused(out) ==
  /\ ev' = Ev("saveEdit", out)
  /\ editOps' = editOps
  /\ UNCHANGED <<dbEntries, weightEntries>>

\* C3: saving an edit (with a valid weight) whose date field names a calendar day
\* on which another entry of the list lies fails with the collision error: no
\* update call is made and the store and the list stay as they were.
C3_EditOntoTakenDayCollides ==
  [][handleSaveEdit /\ selectedEntry.id # 0 /\ ~isNaN(parseFloat(editWeight))
       /\ Truthy(editDate)
       /\ OtherEntryOn(weightEntries, selectedEntry.id, editDate[1])
       => EditRefused("collision")]_vars

\* the weight typed in the edit dialog is not a finite positive number
BadWeight(text) == isNaN(parseFloat(text)) \/ parseFloat(text) <= 0

\* C4: saving an edit whose weight is not a finite positive number fails with the
\* validation error: no update call is made and the store and the list stay as
\* they were.
C4_EditRejectsBadWeight ==
  [][handleSaveEdit /\ selectedEntry.id # 0 /\ BadWeight(editWeight)
       => EditRefused("invalid")]_vars

\* the client's in-memory profile, entry list and bound session identifier
ClientState == <<userProfile, weightEntries, currentUserId>>

\* C5: when a store call of setup, log-today, edit-entry, delete-entry or reset
\* fails, the client's profile, entry list and session identifier are what they
\* were when the operation started.
C5_FailureLeavesClientState ==
  [][/\ \A op \in setupOps :
          setupOps' = setupOps \ {op} /\ ev' = Ev("setup", "failed")
            => ClientState' = op.before
     /\ (\/ todayOps' # todayOps /\ ev' = Ev("saveToday", "failed")
         \/ editOps' # editOps /\ ev' = Ev("saveEdit", "failed")
         \/ deleteOps' # deleteOps /\ ev' = Ev("delete", "failed")
         \/ resetOps' # resetOps /\ ev' = Ev("reset", "failed"))
          => ClientState' = ClientState]_vars

C8_GoalProgressInRange ==
  stats.has => /\ RatLeq(Rat(0, 1), stats.goalProgress)
               /\ RatLeq(stats.goalProgress, Rat(100, 1))

\* C9: whenever statistics are shown, the day span is at least 1 and the weekly
\* trend has the sign of totalChange.
C9_TrendSignMatchesChange ==
  stats.has => /\ stats.daysTracked >= 1
               /\ RatSign(stats.weeklyAvg) = Sign(stats.totalChange)

\* the entries lie on consecutive local days, one a day, the last being today
ConsecutiveEndingToday(entries) ==
  /\ Len(entries) > 0
  /\ OnePerDay(SeqRange(entries))
  /\ {LocalDay(e.date) : e \in SeqRange(entries)}
       = (LocalDay(now) - Len(entries) + 1)..LocalDay(now)

\* C10: a list of N entries on N consecutive days ending today has streak N.
C10_StreakCountsConsecutiveDays ==
  stats.has /\ ConsecutiveEndingToday(weightEntries)
    => stats.streak = Len(weightEntries)

\* the entry of the latest day lies more than one day after every other entry
GapBeforeLatest(entries) ==
  /\ Len(entries) >= 2
  /\ \E i \in 1..Len(entries) : \A j \in 1..Len(entries) :
       j # i => LocalDay(entries[i].date) - LocalDay(entries[j].date) > 1

\* C11: when the latest entry is more than one calendar day after the next most
\* recent one, the streak is 1, however many consecutive days precede the gap.
C11_GapResetsStreak ==
  stats.has /\ GapBeforeLatest(weightEntries) => stats.streak = 1

\* the profile 80 -> 70 with exactly three entries, on three consecutive days,
\* weighing 80, 79 and 78 in the order of their dates
Scenario807978(profile, entries) ==
  /\ profile.id # 0 /\ profile.start_weight = 80 /\ profile.goal_weight = 70
  /\ Len(entries) = 3
  /\ \E d \in 0..MaxStoredDay : \E i, j, k \in 1..3 :
       /\ {i, j, k} = 1..3
       /\ LocalDay(entries[i].date) = d     /\ entries[i].weight = 80
       /\ LocalDay(entries[j].date) = d + 1 /\ entries[j].weight = 79
       /\ LocalDay(entries[k].date) = d + 2 /\ entries[k].weight = 78

\* C12: in that scenario totalChange = -2, goalProgress = 20 and streak = 3.
C12_Scenario807978 ==
  Scenario807978(userProfile, weightEntries)
    => /\ stats.totalChange = -2
       /\ RatEq(stats.goalProgress, Rat(20, 1))
       /\ stats.streak = 3

\* C13: with no goal and exactly one entry, totalChange = 0, goalProgress = 0,
\* streak = 1 and the weekly trend is 0.
C13_SingleEntryNoGoal ==
  userProfile.id # 0 /\ userProfile.goal_weight = 0 /\ Len(weightEntries) = 1
    => /\ stats.has
       /\ stats.totalChange = 0
       /\ RatEq(stats.goalProgress, Rat(0, 1))
       /\ stats.streak = 1
       /\ RatEq(stats.weeklyAvg, Rat(0, 1))

\* C13 witness: a dashboard without a goal showing one entry
C13_Witness ==
  /\ DashboardShown /\ userProfile.goal_weight = 0
  /\ Len(weightEntries) = 1 /\ stats.has

\* C14: the statistics are the no-data result exactly when the profile is absent
\* or the list is empty, and a stats record in every other state.
C14_NoStatsIffNoData ==
  /\ stats.has <=> ~(userProfile.id = 0 \/ weightEntries = <<>>)
  /\ ~stats.has => stats = NoStats

\* C14 witness: a dashboard whose profile has no entry shows no statistics
C14_Witness ==
  /\ DashboardShown /\ weightEntries = <<>> /\ ~stats.has

\* the moods the first matching rule of the precedence allows
AllowedMoods(user, st, today) ==
  IF today.id = 0 THEN {"neutral"}
  ELSE IF user.goal_weight # 0 /\ st.currentWeight <= user.goal_weight
         THEN {"celebrate"}
  ELSE IF RatSign(st.weeklyAvg) < 0 THEN {"celebrate", "good"}
  ELSE IF RatSign(st.weeklyAvg) > 0 /\ user.goal_weight # 0 THEN {"warning"}
  ELSE {"good", "neutral"}

\* C15: whichever message is picked, its mood is one the first matching rule
\* allows (no entry today; goal reached; losing; gaining with a goal; otherwise),
\* and a reached goal gives the fixed message.
C15_MotivationPrecedence ==
  LET st == stats
      today == entryToday
      picks == buildMotivation(userProfile, st, today)
  IN  st.has =>
        /\ picks # {}
        /\ \A m \in picks : m.mood \in AllowedMoods(userProfile, st, today)
        /\ (/\ today.id # 0 /\ userProfile.goal_weight # 0
            /\ st.currentWeight <= userProfile.goal_weight)
             => picks = {GoalAchieved}

\* C15 witness: today is not logged while the trend is upward with a goal set, so
\* that the first rule decides for neutral over warning
C15_Witness ==
  /\ stats.has /\ entryToday.id = 0
  /\ userProfile.goal_weight # 0 /\ stats.currentWeight > userProfile.goal_weight
  /\ RatSign(stats.weeklyAvg) > 0
  /\ ops > 0

\* C16: when the load of the saved profile fails (the identifier is not
\* recognised, or a call fails otherwise), the stored and the bound identifier
\* are dropped and the page ends with no profile, an empty list and loading over.
C16_LoadFailureEndsInNoProfile ==
  [][(\E l \in loads : LoadFailed(l))
       => /\ storageId' = 0 /\ currentUserId' = 0
          /\ userProfile' = NullProfile /\ weightEntries' = <<>>
          /\ ~isLoading']_vars

\* the handler returned with a validation error: nothing requested, nothing changed
Rejected ==
  /\ ev'.out \in {"ignored", "invalid"}
  /\ UNCHANGED <<storeVars, dataVars, setupVars, editVars, opVars>>

\* C17: setup and log-today with a weight that is missing or not a positive
\* number are rejected before any store call: nothing is created or changed.
C17_BadWeightRejectedBeforeCall ==
  [][/\ \A name \in Names, w \in SetupWeightTexts, g \in SetupGoalTexts :
          handleSetupSubmit(name, w, g) /\ BadWeight(w) => Rejected
     /\ \A w \in TodayWeightTexts \cup ReturningWeightTexts :
          handleSaveToday(w) /\ BadWeight(w) => Rejected]_vars

\* the entries of today among a set of entries of one user
OfToday(entries, uid) ==
  {e \in entries : e.user_id = uid /\ isSameDay(e.date, now)}

\* C18: when the call of a log-today submission that was made while the call of
\* an earlier submission was in flight is answered, the store and the list hold
\* at most one entry for today (setup and load being over, and setup's entry
\* being of an earlier day).
C18_DoubleSubmitCreatesOne ==
  [][\A op \in todayOps :
       (/\ SaveTodayDone(op, TRUE) /\ op.k > 1
        /\ setupOps = {} /\ loads = {}
        /\ \A e \in OfToday(dbEntries, op.uid) : e.note = "Daily entry")
         => /\ Cardinality(OfToday(dbEntries, op.uid)') <= 1
            /\ Cardinality(OfToday(SeqRange(weightEntries), op.uid)') <= 1]_vars

\* what the claim compares of an entry: identifier, weight and date
Essence(e) == [id |-> e.id, weight |-> e.weight, date |-> e.date]

\* nothing is in flight: no timer, no request
Quiescent == Settled /\ resetOps = {}

\* C19: once every operation in flight has completed, the list holds exactly the
\* entries the store holds for the profile shown, each once.
C19_ListMatchesStore ==
  Quiescent /\ userProfile.id # 0
    => /\ {Essence(e) : e \in SeqRange(weightEntries)}
            = {Essence(e) : e \in EntryRows(userProfile.id)}
       /\ Len(weightEntries) = Cardinality(EntryRows(userProfile.id))

\* C20: whenever statistics are shown, currentWeight is the weight of an entry
\* whose date is the maximum of the list.
C20_CurrentWeightIsLatest ==
  stats.has =>
    \E e \in SeqRange(weightEntries) :
      /\ \A f \in SeqRange(weightEntries) : f.date <= e.date
      /\ stats.currentWeight = e.weight

\* the five statistics agree (the two quotients as numbers)
StatsEq(a, b) ==
  /\ a.has = b.has
  /\ a.currentWeight = b.currentWeight
  /\ a.totalChange = b.totalChange
  /\ RatEq(a.weeklyAvg, b.weeklyAvg)
  /\ RatEq(a.goalProgress, b.goalProgress)
  /\ a.streak = b.streak

\* C21: the statistics do not depend on the order in which the list holds its
\* entries: computed from the list as held and from the same entries in the order
\* a load returns them, the five values are identical.
C21_StatsIgnoreOrder ==
  \A other \in OrderByDateDesc(SeqRange(weightEntries)) :
    StatsEq(stats, statsOf(userProfile, other))

\* C22: the list is sorted by date, latest first, in every reachable state.
C22_ListSortedDesc == IsSortedDesc(weightEntries)

\* C23: saving an edit (with a valid weight) whose date field names the calendar
\* day the edited entry already lies on is never refused as a collision.
C23_OwnDayNeverCollides ==
  [][handleSaveEdit /\ selectedEntry.id # 0 /\ ~isNaN(parseFloat(editWeight))
       /\ editDate = format(selectedEntry.date)
       => ev' # Ev("saveEdit", "collision")]_vars

\* the request was made with the date field as the dialog had filled it in
DateUntouched(op) == op.date = NewDate(format(op.selected.date))

\* C24: a successful edit whose date field was left as pre-filled leaves the
\* entry, in the store and in the list, on the local calendar day it was on, in
\* every time zone.
C24_UntouchedDateKeepsDay ==
  [][\A op \in editOps :
       SaveEditDone(op, TRUE) /\ ev' = Ev("saveEdit", "updated") /\ DateUntouched(op)
         => \A e \in dbEntries' \cup SeqRange(weightEntries') :
              e.id = op.selected.id
                => LocalDay(e.date) = LocalDay(op.selected.date)]_vars

\* the entries of a list other than the one with the identifier
Others(entries, id) == {e \in SeqRange(entries) : e.id # id}

\* C25: when an edit succeeds, the stored entry carries the weight, note and date
\* that were submitted, the entry of the list with that identifier carries the
\* weight and date of the stored one, and every other entry of the list is as
\* it was.
C25_EditWritesThrough ==
  [][\A op \in editOps :
       SaveEditDone(op, TRUE) /\ ev' = Ev("saveEdit", "updated")
         => /\ \E row \in dbEntries' :
                 /\ row.id = op.selected.id
                 /\ row.weight = op.weight /\ row.note = op.note /\ row.date = op.date
                 /\ \E i \in 1..Len(weightEntries') :
                      /\ weightEntries'[i].id = row.id
                      /\ weightEntries'[i].weight = row.weight
                      /\ weightEntries'[i].date = row.date
            /\ Others(weightEntries', op.selected.id)
                 = Others(weightEntries, op.selected.id)]_vars

\* the weight typed into the log-today field is one the handler accepts
ValidToday(text) == Truthy(text) /\ ~isNaN(parseFloat(text))

\* NoEntryToday: the list holds no entry of today
NoEntryToday == ~LoggedToday(weightEntries)

\* from NoEntryToday a log-today issues the create call, and its answer leaves
\* exactly one entry of today in the list
LogCreatesOne ==
  /\ [][\A w \in ReturningWeightTexts :
          handleSaveToday(w) /\ ValidToday(w) /\ NoEntryToday
            => ev' = Ev("saveToday", "post")]_vars
  /\ [][\A op \in todayOps :
          SaveTodayDone(op, TRUE) /\ NoEntryToday
            => Cardinality(OfToday(SeqRange(weightEntries), op.uid)') = 1]_vars

\* an edit of today's entry that keeps the day leaves an entry of today
EditKeepsToday ==
  [][\A op \in editOps :
       SaveEditDone(op, TRUE) /\ ev' = Ev("saveEdit", "updated")
         /\ isSameDay(op.selected.date, now) /\ DateUntouched(op)
         => LoggedToday(weightEntries')]_vars

\* the delete of today's only entry leaves no entry of today
DeleteFreesToday ==
  [][\A op \in deleteOps :
       DeleteDone(op, TRUE) /\ ev' = Ev("delete", "deleted")
         /\ OfToday(SeqRange(weightEntries), op.selected.user_id) = {op.selected}
         => ~LoggedToday(weightEntries')]_vars

\* C26: for each calendar day, a log-today made while the list holds no entry of
\* today creates one (and only one) entry of today; an edit that keeps the day
\* keeps it; a successful delete of today's entry leaves the day without an entry,
\* so that the next log-today creates an entry again instead of opening the edit
\* flow.
C26_DayLifecycle == LogCreatesOne /\ EditKeepsToday /\ DeleteFreesToday

\* the message of the card as rendered: the card is part of the dashboard
ShownMotivation == IF DashboardShown THEN motivation ELSE NoMotivation

\* C27: in every settled state the message shown goes with the current inputs:
\* with statistics, its mood is one the category decision allows for the profile,
\* the statistics and whether the list holds an entry of today; without
\* statistics no message is shown.
C27_MotivationFollowsInputs ==
  Settled =>
    IF DashboardShown /\ stats.has
      THEN ShownMotivation.mood
             \in AllowedMoods(userProfile, stats, entryTodayOf(weightEntries))
      ELSE ShownMotivation = NoMotivation

\* the profile, the bound identifier and the persisted slot name one user, or
\* none of the three is there
OneSession ==
  /\ userProfile.id # 0 <=> currentUserId # 0
  /\ userProfile.id # 0 => currentUserId = userProfile.id /\ storageId = userProfile.id

\* C28: in every settled state the profile is present exactly when a session
\* identifier is bound, the bound identifier is the profile's and the persisted
\* slot holds it; and a profile that was present goes away only by a reset, a
\* failed load or a new mount of the page.
C28_SingleSessionSlot ==
  /\ [](Settled /\ ~isLoading => OneSession)
  /\ [][userProfile.id # 0 /\ userProfile'.id = 0
          => ev'.op \in {"reset", "load", "mount"}]_vars

\* the attempts of setup whose create-entry call is in flight
EntryCalls(pending) == {op \in pending : op.stage = "entry"}

\* C29: in a setup, the create-entry call is issued only once the create-profile
\* call has succeeded, and for the id that call returned; when create-profile
\* fails the attempt ends without a create-entry call.
C29_EntryAfterProfile ==
  /\ [](\A op \in EntryCalls(setupOps) : \E u \in dbUsers : u.id = op.user.id)
  /\ [][\A op \in setupOps, ok \in BOOLEAN :
          SetupUserDone(op, ok)
            => IF ev' = Ev("setup", "postentry")
                 THEN /\ ok
                      /\ \E u \in dbUsers' \ dbUsers :
                           \A call \in EntryCalls(setupOps') : call.user.id = u.id
                      /\ EntryCalls(setupOps') # {}
                 ELSE /\ EntryCalls(setupOps') = {}
                      /\ UNCHANGED <<dbUsers, dbEntries>>]_vars
  /\ [][\A op \in setupOps :
          SetupEntryDone(op, TRUE) /\ ev' = Ev("setup", "done")
            => \A e \in dbEntries' \ dbEntries : e.user_id = op.user.id]_vars

\* C29 witness: a setup has completed both calls, and the starting entry in the
\* store belongs to the profile the first call created
C29_Witness ==
  /\ ev = Ev("setup", "done")
  /\ userProfile.id # 0 /\ userProfile.id = currentUserId
  /\ \E e \in dbEntries : e.user_id = userProfile.id /\ e.note = "Starting point"

\* no busy flag is raised
NotBusy == ~isSubmitting /\ ~isSavingEdit /\ ~isDeleting

\* C30: provided the store answers every call, a raised busy flag (isSubmitting,
\* isSavingEdit, isDeleting) is lowered again, whether the call succeeded or
\* failed, and no settled state has a busy flag raised.
C30_BusyFlagsCleared ==
  /\ [](Settled => NotBusy)
  /\ (isSubmitting ~> ~isSubmitting)
  /\ (isSavingEdit ~> ~isSavingEdit)
  /\ (isDeleting ~> ~isDeleting)

\* C30 witness: a setup whose second call failed has ended and the flag is down
C30_Witness ==
  /\ ev = Ev("setup", "failed") /\ dbUsers # {}
  /\ Settled /\ NotBusy

====
